---- MODULE Spec2Model ----
(***************************************************************************)
(* The job-polling core of src/src/app/page.tsx: the React state of Home,  *)
(* the async handler handleButtonClick (one process per accepted click,    *)
(* suspended at each await), the setInterval progress timer every run      *)
(* starts, and handleInputChange.  The remote service is an environment    *)
(* that answers each request with any HTTP code and any body of a small    *)
(* set, or not at all (the fetch rejects).                                 *)
(***************************************************************************)
EXTENDS Integers, Sequences, FiniteSets, TLC

VARIABLES message, progress, predictionOn, prediction, error, runs, download

vars == <<message, progress, predictionOn, prediction, error, runs, download>>

(***************************************************************************)
(* Bounds of the model.                                                    *)
(***************************************************************************)
\* accepted clicks (invocations of handleButtonClick that reach the fetch)
\* in the specification of one run against the full service
MaxRuns == 1
\* status requests one run may issue there
MaxPolls == 3
\* accepted clicks and status requests per run in the specification of
\* several runs against a small service
MaxRunsMulti == 2
MaxPollsMulti == 1
\* accepted clicks and status requests per run in the specification of
\* overlapping runs: the run the 429 fall-through leaves executing and two
\* more
MaxRunsOverlap == 3
MaxPollsOverlap == 1
\* accepted clicks in the fair specification, and the status request by
\* which its service has settled
MaxRunsLive == 1
MaxPollsLive == 2
\* interval callbacks that fire back to back when the timer is fast-forwarded
TickBurst == 50
\* a timer fires single callbacks only while its counter is at most this
MaxSingleTicks == 1

(***************************************************************************)
(* Program constants.                                                      *)
(***************************************************************************)
MaxMessageLen == 2000
ProgressMax == 100
HttpCreated == 201
HttpOk == 200
HttpTooMany == 429

\* JavaScript null and undefined, as they appear in `error` and in a body
NULL == "<null>"
Undefined == "<undefined>"

NoTextMsg == "No text entered. Please enter a prompt and try again."
TooLongMsg == "Your message exceeds the 2000 characters limit. Please shorten your message and try again."
RateLimitMsg == "You have reached your request limit of 5 for the hour. Try again after sometime."

(***************************************************************************)
(* The inputs: texts of the prompt field, HTTP codes, response bodies.     *)
(***************************************************************************)
RECURSIVE Repeat(_, _)
Repeat(s, n) ==
  IF n = 0 THEN ""
  ELSE IF n % 2 = 1 THEN s \o Repeat(s, n - 1)
  ELSE LET h == Repeat(s, n \div 2) IN h \o h

Messages ==
  {"", "tiger", Repeat("a", MaxMessageLen), Repeat("a", MaxMessageLen + 1)}

Codes == {HttpOk, HttpCreated, HttpTooMany, 500}

Ids == {"j1", "j2"}
Statuses == {"starting", "processing", "succeeded", "failed"}
Outputs == {<<>>, <<"/u1.png">>}

\* what response.json() yields: a Prediction, an error object carrying only
\* `detail`, the JSON value null, or a body that does not parse ("bad")
JobBodies ==
  [kind : {"json"}, id : Ids, status : Statuses, output : Outputs, detail : {Undefined}]
ErrorBodies ==
  [kind : {"json"}, id : {Undefined}, status : {Undefined}, output : {<<>>},
   detail : {"service detail"}]
NullBody ==
  [kind |-> "null", id |-> Undefined, status |-> Undefined, output |-> <<>>,
   detail |-> Undefined]
BadBody ==
  [kind |-> "bad", id |-> Undefined, status |-> Undefined, output |-> <<>>,
   detail |-> Undefined]
Bodies == JobBodies \cup ErrorBodies \cup {NullBody, BadBody}

\* the small service of the specification of several runs
MultiCodes == {HttpOk, HttpCreated, HttpTooMany}
MultiBodies ==
  {[kind |-> "json", id |-> "j1", status |-> "processing", output |-> <<>>,
    detail |-> Undefined],
   [kind |-> "json", id |-> "j1", status |-> "succeeded", output |-> <<"/u1.png">>,
    detail |-> Undefined]}
  \cup ErrorBodies

\* the service of the specification of overlapping runs: jobs still in
\* progress, told apart by their id
OverlapMessages == {"", "tiger"}
OverlapCodes == {HttpOk, HttpCreated, HttpTooMany}
OverlapBodies ==
  {[kind |-> "json", id |-> i, status |-> "processing", output |-> <<>>,
    detail |-> Undefined] : i \in Ids}

\* the service of the fair specification: one job that is in progress,
\* succeeds or fails, and error bodies
LiveBodies ==
  {[kind |-> "json", id |-> "j1", status |-> st, output |-> <<>>,
    detail |-> Undefined] : st \in {"processing", "succeeded", "failed"}}
    \cup ErrorBodies

NoResponse == [code |-> 0, body |-> NullBody]

\* window.location.origin of the deployed page
Origin == "https://tattoo.example"

\* the references a Download button can carry: the sample images of the
\* page and the output entries of a prediction
RefHeads ==
  {"/", "/images/", "http://cdn.example/", "https://cdn.example/",
   "https://replicate.delivery/out/"}
RefFiles ==
  {"dog.webp", "panda.webp", "tiger.webp", "samurai.webp",
   "u1.png", "u2.png", "u3.png", "u4.png"}
DownloadRefs == {h \o f : h \in RefHeads, f \in RefFiles}

\* downloadImage: not called yet
\* the Download buttons of the whole-page specification: a sample image and
\* an output of the stored Job
PageRefs == {"/images/dog.webp", "https://replicate.delivery/out/u1.png"}

NoDownload == [pc |-> "idle", src |-> "", url |-> ""]

(***************************************************************************)
(* One invocation of handleButtonClick.                                    *)
(*   pc     where the handler is suspended                                 *)
(*   req    the message of the creation request in flight ("": none)       *)
(*   creates  creation requests issued                                     *)
(*   resp   the Response the last fetch resolved with                      *)
(*   createCode  the HTTP code of the creation response                    *)
(*   polls  status requests issued                                         *)
(*   jobId  the id predictionsIdUrl was built from                         *)
(*   timer  progressInterval: "none", "running" or "cleared"               *)
(*   pv     progressValue                                                  *)
(*   exit   how the handler returned                                       *)
(***************************************************************************)
Larger(a, b) == IF a > b THEN a ELSE b
RunIds == 1..Larger(Larger(MaxRuns, MaxRunsLive), Larger(MaxRunsMulti, MaxRunsOverlap))

IdleRun ==
  [pc |-> "idle", req |-> "", creates |-> 0, resp |-> NoResponse,
   createCode |-> 0, polls |-> 0,
   jobId |-> Undefined, timer |-> "none", pv |-> 0, exit |-> "none"]

Init ==
  /\ message = ""
  /\ progress = 0
  /\ predictionOn = FALSE
  /\ prediction = NullBody
  /\ error = NULL
  /\ runs = [r \in RunIds |-> IdleRun]
  /\ download = NoDownload

(***************************************************************************)
(* Pure pieces of the handler.                                             *)
(***************************************************************************)
\* response.ok
ResponseOk(code) == code >= 200 /\ code <= 299

\* a prompt that sends the raw text without the fixed phrases around it
TemplateRawOnly(m) == m

\* the prompt sent in the creation request
Template(m) == "in the style of TOK," \o m \o " as a tattoo"

\* a length test that lets one character too many through
ValidateOffByOne(m) ==
  IF m = "" THEN "empty"
  ELSE IF Len(m) > MaxMessageLen + 1 THEN "toolong"
  ELSE "ok"

\* a head without the test for an empty text
ValidateNoEmpty(m) ==
  IF Len(m) > MaxMessageLen THEN "toolong" ELSE "ok"

\* the branch the synchronous head of handleButtonClick takes
Validate(m) ==
  IF m = "" THEN "empty"
  ELSE IF Len(m) > MaxMessageLen THEN "toolong"
  ELSE "ok"

\* a handler that also accepts a rate-limited creation response
CreatedOrLimited(code) == code = HttpCreated \/ code = HttpTooMany

\* a test that takes every ok creation response for an accepted one
CreatedAnyOk(code) == ResponseOk(code)

\* the creation response is accepted: the negation of response.status !== 201
Created(code) == code = HttpCreated

\* a test that accepts every 2xx status response
PollOkAnySuccess(code) == code >= 200 /\ code <= 299

\* a status response is accepted: the negation of response.status !== 200
PollOk(code) == code = HttpOk

\* loop conditions that test one of the two statuses only
IsTerminalSucceededOnly(status) == status = "succeeded"
IsTerminalFailedOnly(status) == status = "failed"

\* the negation of the while condition
IsTerminal(status) == status = "succeeded" \/ status = "failed"

\* a handler that leaves Progress as it is when a poll reports "succeeded"
SucceededProgressKept == progress

\* the value setProgress receives when a poll reports "succeeded"
SucceededProgress == ProgressMax

\* a callback whose test lets the counter through once more
TickOncePastCap(t) ==
  IF t.pv <= ProgressMax + 1
    THEN [pv |-> t.pv + 1, progress |-> t.pv, timer |-> t.timer]
    ELSE [pv |-> t.pv, progress |-> t.progress, timer |-> "cleared"]

\* a callback that stops writing at the cap but never clears its interval
TickOnceNeverClears(t) ==
  IF t.pv <= ProgressMax
    THEN [pv |-> t.pv + 1, progress |-> t.pv, timer |-> t.timer]
    ELSE t

\* one firing of the setInterval callback, on <<progressValue, progress, timer>>
TickOnce(t) ==
  IF t.pv <= ProgressMax
    THEN [pv |-> t.pv + 1, progress |-> t.pv, timer |-> t.timer]
    ELSE [pv |-> t.pv, progress |-> t.progress, timer |-> "cleared"]

\* n firings in a row; a cleared interval fires no more.  The state after
\* one firing is bound to a value before the remaining firings are applied.
RECURSIVE TickN(_, _)
TickN(n, t) ==
  IF n = 0 \/ t.timer # "running"
    THEN t
    ELSE CHOOSE last \in {TickN(n - 1, after) : after \in {TickOnce(t)}} : TRUE

\* clearInterval(progressInterval)
ClearInterval(timer) == IF timer = "running" THEN "cleared" ELSE timer

NextRun(r) ==
  /\ runs[r].pc = "idle"
  /\ \A q \in RunIds : q < r => runs[q].pc # "idle"

Finish(run, how) == [run EXCEPT !.pc = "done", !.exit = how]

(***************************************************************************)
(* handleInputChange                                                       *)
(***************************************************************************)
\* an input handler that also dismisses the error shown
HandleInputChangeClearsError(m) ==
  /\ m # message
  /\ message' = m
  /\ error' = NULL
  /\ UNCHANGED <<progress, predictionOn, prediction, runs>>
  /\ UNCHANGED download

HandleInputChange(m) ==
  /\ m # message
  /\ message' = m
  /\ UNCHANGED <<progress, predictionOn, prediction, error, runs>>
  /\ UNCHANGED download

(***************************************************************************)
(* handleButtonClick, up to its first await.  The button is disabled while *)
(* predictionOn holds, so a click is an event only when it is false.       *)
(***************************************************************************)
ClickEmpty ==
  /\ ~predictionOn
  /\ Validate(message) = "empty"
  /\ error' = NoTextMsg
  /\ UNCHANGED <<message, progress, predictionOn, prediction, runs>>
  /\ UNCHANGED download

ClickTooLong ==
  /\ ~predictionOn
  /\ Validate(message) = "toolong"
  /\ error' = TooLongMsg
  /\ UNCHANGED <<message, progress, predictionOn, prediction, runs>>
  /\ UNCHANGED download

Click(r) ==
  /\ ~predictionOn
  /\ NextRun(r)
  /\ Validate(message) = "ok"
  /\ error' = NULL
  /\ predictionOn' = TRUE
  /\ runs' = [runs EXCEPT ![r].pc = "awaitCreate",
                          ![r].req = Template(message),
                          ![r].creates = @ + 1]
  /\ UNCHANGED <<message, progress, prediction>>
  /\ UNCHANGED download

(***************************************************************************)
(* The creation request: await fetch(apiRoute, options)                    *)
(***************************************************************************)
\* the fetch rejects: the catch block
CreateFetchFails(r) ==
  /\ runs[r].pc = "awaitCreate"
  /\ predictionOn' = FALSE
  /\ runs' = [runs EXCEPT ![r] = Finish([@ EXCEPT !.req = ""], "caught")]
  /\ UNCHANGED <<message, progress, prediction, error>>
  /\ UNCHANGED download

\* the fetch resolves; the handler runs on to await response.json(), or
\* throws on a code that is neither ok nor 429
CreateResponse(r, code, body) ==
  /\ runs[r].pc = "awaitCreate"
  /\ LET got == [runs[r] EXCEPT !.req = "",
                                !.resp = [code |-> code, body |-> body],
                                !.createCode = code]
     IN
     IF ResponseOk(code)
       THEN /\ runs' = [runs EXCEPT ![r] = [got EXCEPT !.pc = "awaitCreateJson"]]
            /\ UNCHANGED <<predictionOn, error>>
       ELSE IF code = HttpTooMany
         THEN /\ error' = RateLimitMsg
              /\ predictionOn' = FALSE
              /\ runs' = [runs EXCEPT ![r] = [got EXCEPT !.pc = "awaitCreateJson"]]
         ELSE /\ predictionOn' = FALSE
              /\ runs' = [runs EXCEPT ![r] = Finish(got, "caught")]
              /\ UNCHANGED error
  /\ UNCHANGED <<message, progress, prediction>>
  /\ UNCHANGED download

\* response.json() settles: the rest of the handler up to the first sleep
CreateJson(r) ==
  /\ runs[r].pc = "awaitCreateJson"
  /\ LET code == runs[r].resp.code
         body == runs[r].resp.body
     IN
     IF body.kind = "bad" \/ (~Created(code) /\ body.kind = "null")
       THEN \* json() rejects, or prediction.detail of null throws
            /\ predictionOn' = FALSE
            /\ runs' = [runs EXCEPT ![r] = Finish(@, "caught")]
            /\ UNCHANGED <<progress, prediction, error>>
       ELSE IF ~Created(code)
         THEN /\ error' = body.detail
              /\ predictionOn' = FALSE
              /\ runs' = [runs EXCEPT ![r] = Finish(@, "rejected")]
              /\ UNCHANGED <<progress, prediction>>
         ELSE IF body.kind = "null"
           THEN /\ prediction' = NullBody
                /\ predictionOn' = FALSE
                /\ runs' = [runs EXCEPT ![r] = Finish(@, "nobody")]
                /\ UNCHANGED <<progress, error>>
           ELSE /\ prediction' = body
                /\ progress' = 0
                /\ LET started == [runs[r] EXCEPT !.jobId = body.id,
                                                  !.timer = "running", !.pv = 1]
                   IN runs' = [runs EXCEPT ![r] =
                                 IF IsTerminal(body.status)
                                   THEN Finish(started, "terminal")
                                   ELSE [started EXCEPT !.pc = "sleep"]]
                /\ UNCHANGED <<predictionOn, error>>
  /\ UNCHANGED message
  /\ UNCHANGED download

(***************************************************************************)
(* The polling loop                                                        *)
(***************************************************************************)
\* await sleep(2000) ends and fetch(predictionsIdUrl) is issued
SleepDone(r, maxPolls) ==
  /\ runs[r].pc = "sleep"
  /\ runs[r].polls < maxPolls
  /\ runs' = [runs EXCEPT ![r].pc = "awaitPoll", ![r].polls = @ + 1]
  /\ UNCHANGED <<message, progress, predictionOn, prediction, error>>
  /\ UNCHANGED download

PollFetchFails(r) ==
  /\ runs[r].pc = "awaitPoll"
  /\ predictionOn' = FALSE
  /\ runs' = [runs EXCEPT ![r] = Finish(@, "caught")]
  /\ UNCHANGED <<message, progress, prediction, error>>
  /\ UNCHANGED download

PollResponse(r, code, body) ==
  /\ runs[r].pc = "awaitPoll"
  /\ runs' = [runs EXCEPT ![r].pc = "awaitPollJson",
                          ![r].resp = [code |-> code, body |-> body]]
  /\ UNCHANGED <<message, progress, predictionOn, prediction, error>>
  /\ UNCHANGED download

\* response.json() settles: the rest of the iteration and the loop test
PollJson(r) ==
  /\ runs[r].pc = "awaitPollJson"
  /\ LET code == runs[r].resp.code
         body == runs[r].resp.body
     IN
     IF body.kind = "bad" \/ (~PollOk(code) /\ body.kind = "null")
       THEN /\ predictionOn' = FALSE
            /\ runs' = [runs EXCEPT ![r] = Finish(@, "caught")]
            /\ UNCHANGED <<progress, prediction, error>>
       ELSE IF ~PollOk(code)
         THEN /\ error' = body.detail
              /\ runs' = [runs EXCEPT ![r] = Finish(@, "pollError")]
              /\ UNCHANGED <<progress, predictionOn, prediction>>
         ELSE IF body.kind = "null"
           THEN \* setPrediction(null), then prediction.status throws
                /\ prediction' = NullBody
                /\ predictionOn' = FALSE
                /\ runs' = [runs EXCEPT ![r] = Finish(@, "caught")]
                /\ UNCHANGED <<progress, error>>
           ELSE /\ prediction' = body
                /\ IF body.status = "succeeded"
                     THEN /\ progress' = SucceededProgress
                          /\ predictionOn' = FALSE
                     ELSE UNCHANGED <<progress, predictionOn>>
                /\ LET after == IF body.status = "succeeded"
                                  THEN [runs[r] EXCEPT !.timer = ClearInterval(@)]
                                  ELSE runs[r]
                   IN runs' = [runs EXCEPT ![r] =
                                 IF IsTerminal(body.status)
                                   THEN Finish(after, "terminal")
                                   ELSE [after EXCEPT !.pc = "sleep"]]
                /\ UNCHANGED error
  /\ UNCHANGED message
  /\ UNCHANGED download

(***************************************************************************)
(* The progress timer of run r fires n times                               *)
(***************************************************************************)
Tick(r, n) ==
  /\ runs[r].timer = "running"
  /\ n = 1 => runs[r].pv <= MaxSingleTicks
  /\ LET t == TickN(n, [pv |-> runs[r].pv, progress |-> progress,
                        timer |-> runs[r].timer])
     IN /\ progress' = t.progress
        /\ runs' = [runs EXCEPT ![r].pv = t.pv, ![r].timer = t.timer]
  /\ UNCHANGED <<message, predictionOn, prediction, error>>
  /\ UNCHANGED download

(***************************************************************************)
(* downloadImage                                                           *)
(***************************************************************************)
\* src.startsWith(p)
StartsWith(src, p) == Len(src) >= Len(p) /\ SubSeq(src, 1, Len(p)) = p

\* a resolution that takes only https references as they are
ResolveHttpsOnly(src) == IF StartsWith(src, "https") THEN src ELSE Origin \o src

\* the address downloadImage fetches
Resolve(src) == IF StartsWith(src, "http") THEN src ELSE Origin \o src

\* a Download button is clicked: the reference is resolved and fetched
DownloadImage(src) ==
  /\ download.pc \in {"idle", "saved", "failed"}
  /\ download' = [pc |-> "fetch", src |-> src, url |-> Resolve(src)]
  /\ UNCHANGED <<message, progress, predictionOn, prediction, error, runs>>

\* await fetch(src) resolves
DownloadResponse ==
  /\ download.pc = "fetch"
  /\ download' = [download EXCEPT !.pc = "blob"]
  /\ UNCHANGED <<message, progress, predictionOn, prediction, error, runs>>

\* await response.blob() resolves: the anchor is built and clicked
DownloadBlob ==
  /\ download.pc = "blob"
  /\ download' = [download EXCEPT !.pc = "saved"]
  /\ UNCHANGED <<message, progress, predictionOn, prediction, error, runs>>

\* the fetch or the blob rejects: downloadImage ends with the rejection
DownloadFails ==
  /\ download.pc \in {"fetch", "blob"}
  /\ download' = [download EXCEPT !.pc = "failed"]
  /\ UNCHANGED <<message, progress, predictionOn, prediction, error, runs>>

\* the steps of the page with at most maxRuns accepted clicks against a
\* service that answers with the given codes and bodies
Step(maxRuns, maxPolls, codes, bodies) ==
  \/ \E m \in Messages : HandleInputChange(m)
  \/ ClickEmpty
  \/ ClickTooLong
  \/ \E r \in 1..maxRuns : Click(r)
  \/ \E r \in RunIds : CreateFetchFails(r)
  \/ \E r \in RunIds, code \in codes, body \in bodies : CreateResponse(r, code, body)
  \/ \E r \in RunIds : CreateJson(r)
  \/ \E r \in RunIds : SleepDone(r, maxPolls)
  \/ \E r \in RunIds : PollFetchFails(r)
  \/ \E r \in RunIds, code \in codes, body \in bodies : PollResponse(r, code, body)
  \/ \E r \in RunIds : PollJson(r)
  \/ \E r \in RunIds, n \in {1, TickBurst} : Tick(r, n)

\* one run against the full service
Next == Step(MaxRuns, MaxPolls, Codes, Bodies)

Spec == Init /\ [][Next]_vars

\* several runs, one after the other or overlapping, against the small service
NextMulti == Step(MaxRunsMulti, MaxPollsMulti, MultiCodes, MultiBodies)

SpecMulti == Init /\ [][NextMulti]_vars

\* the Download buttons alone
NextDownload ==
  \/ \E src \in DownloadRefs : DownloadImage(src)
  \/ DownloadResponse
  \/ DownloadBlob
  \/ DownloadFails

SpecDownload == Init /\ [][NextDownload]_vars

\* Overlapping runs: three accepted clicks against the service of jobs in
\* progress, without the timer callbacks and the rejected fetches.
NextOverlap ==
  \/ \E m \in OverlapMessages : HandleInputChange(m)
  \/ ClickEmpty
  \/ \E r \in 1..MaxRunsOverlap :
       \/ Click(r)
       \/ \E code \in OverlapCodes, body \in OverlapBodies :
            \/ CreateResponse(r, code, body)
            \/ PollResponse(r, code, body)
       \/ CreateJson(r)
       \/ SleepDone(r, MaxPollsOverlap)
       \/ PollJson(r)

SpecOverlap == Init /\ [][NextOverlap]_vars

\* The whole page: one run against the small service, and the Download
\* buttons.
NextPage ==
  \/ Step(MaxRuns, MaxPollsMulti, MultiCodes, MultiBodies)
  \/ \E src \in PageRefs : DownloadImage(src)
  \/ DownloadResponse
  \/ DownloadBlob
  \/ DownloadFails

SpecPage == Init /\ [][NextPage]_vars

\* The service settles: by status request MaxPollsLive at the latest its
\* answer is a code other than 200 or a 200 reporting a terminal status.
ServiceSettles(r, code, body) ==
  \/ runs[r].polls < MaxPollsLive
  \/ code # HttpOk
  \/ body.kind = "json" /\ body.status \in {"succeeded", "failed"}

LivePollResponse(r, code, body) ==
  /\ ServiceSettles(r, code, body)
  /\ PollResponse(r, code, body)

\* One run against a service that settles, with fair timers and responses.
NextLive ==
  \/ \E m \in OverlapMessages : HandleInputChange(m)
  \/ ClickEmpty
  \/ \E r \in 1..MaxRunsLive :
       \/ Click(r)
       \/ CreateFetchFails(r)
       \/ \E code \in Codes, body \in LiveBodies : CreateResponse(r, code, body)
       \/ CreateJson(r)
       \/ SleepDone(r, MaxPollsLive)
       \/ PollFetchFails(r)
       \/ \E code \in Codes, body \in LiveBodies : LivePollResponse(r, code, body)
       \/ PollJson(r)
       \/ \E n \in {1, TickBurst} : Tick(r, n)

\* the delay of sleep(2000) ends, a pending status fetch settles, a pending
\* response.json() settles, and a running interval fires
Fairness ==
  \A r \in 1..MaxRunsLive :
    /\ WF_vars(SleepDone(r, MaxPollsLive))
    /\ WF_vars(\/ PollFetchFails(r)
               \/ \E code \in Codes, body \in LiveBodies : LivePollResponse(r, code, body))
    /\ WF_vars(PollJson(r))
    /\ WF_vars(\E n \in {1, TickBurst} : Tick(r, n))

SpecLive == Init /\ [][NextLive]_vars /\ Fairness

(***************************************************************************)
(* Properties                                                              *)
(***************************************************************************)
\* the handler of run r returns in this step
Completes(r) == runs[r].pc # "done" /\ runs'[r].pc = "done"

\* the handler of run r is between its click and its return
Executing(r) == runs[r].pc \notin {"idle", "done"}

\* run r waits for the creation fetch, or is inside the polling loop
InFlight(r) == runs[r].pc \in {"awaitCreate", "sleep", "awaitPoll", "awaitPollJson"}

\* C1: when a run ends on a 200 status response whose status is "failed",
\* the in-flight flag is false and the run's progress timer is no longer
\* running, so no tick follows the handling of that response.
C1_FailedCleansUp ==
  [][\A r \in RunIds :
       (/\ Completes(r)
        /\ runs[r].pc = "awaitPollJson"
        /\ runs'[r].exit = "terminal"
        /\ runs'[r].resp.body.status = "failed")
       => (~predictionOn' /\ runs'[r].timer # "running")]_vars

\* C2: when a run ends on a poll-phase error (a status response whose code
\* is not 200, or an exception while fetching or parsing one), the
\* in-flight flag is false and the run's progress timer is not running.
C2_PollErrorCleansUp ==
  [][\A r \in RunIds :
       (/\ Completes(r)
        /\ runs[r].pc \in {"awaitPoll", "awaitPollJson"}
        /\ runs'[r].exit \in {"pollError", "caught"})
       => (~predictionOn' /\ runs'[r].timer # "running")]_vars

\* C3: a run that was created with 201 and ends on a 200 status response
\* reporting "succeeded" (the third of its polls in the witness) ends with
\* the stored Job equal to that response, Progress 100, the in-flight flag
\* false and its progress timer cancelled.
C3_SucceededRunEnd ==
  [][\A r \in RunIds :
       (/\ Completes(r)
        /\ runs[r].pc = "awaitPollJson"
        /\ runs'[r].exit = "terminal"
        /\ runs'[r].resp.body.status = "succeeded")
       => (/\ prediction' = runs'[r].resp.body
           /\ progress' = ProgressMax
           /\ ~predictionOn'
           /\ runs'[r].timer = "cleared")]_vars

\* the third status response of a run was "succeeded", the two before it
\* were 200 responses with a non-terminal status, and the run has ended
C3_Witness ==
  \E r \in RunIds :
    /\ runs[r].pc = "done"
    /\ runs[r].exit = "terminal"
    /\ runs[r].createCode = HttpCreated
    /\ runs[r].polls = 3
    /\ runs[r].resp.code = HttpOk
    /\ runs[r].resp.body.status = "succeeded"
    /\ runs[r].resp.body.output # <<>>
    /\ prediction = runs[r].resp.body
    /\ progress = ProgressMax
    /\ ~predictionOn
    /\ runs[r].timer = "cleared"

\* C4: at most one invocation of the handler is executing at any time, and
\* the in-flight flag is true whenever a run awaits its creation response
\* or is polling.
C4_OneCycleInFlight ==
  /\ Cardinality({r \in RunIds : Executing(r)}) <= 1
  /\ (\E r \in RunIds : InFlight(r)) => predictionOn

\* C5: while a run that has started its progress synthesizer has not ended,
\* no step decreases Progress.
C5_ProgressMonotone ==
  [][\A r \in RunIds :
       (runs[r].timer # "none" /\ runs[r].pc # "done") => progress' >= progress]_vars

\* C6: Progress is always an integer in [0, 100], no timer counts past
\* 101, and the tick that finds the counter above 100 releases the timer
\* and leaves Progress as it is.
C6_ProgressInRange ==
  /\ [](/\ progress \in 0..ProgressMax
        /\ \A r \in RunIds : runs[r].pv \in 0..(ProgressMax + 1))
  /\ [][\A r \in RunIds :
          (/\ runs[r].timer = "running"
           /\ runs[r].pv > ProgressMax
           /\ runs'[r].pc = runs[r].pc
           /\ runs'[r] # runs[r])
          => (progress' = progress /\ runs'[r].timer = "cleared")]_vars

\* a timer has counted to the cap and released itself while its run is
\* still polling, and Progress holds at 100
C6_Witness ==
  \E r \in RunIds :
    /\ runs[r].pc \in {"sleep", "awaitPoll", "awaitPollJson"}
    /\ runs[r].timer = "cleared"
    /\ runs[r].pv = ProgressMax + 1
    /\ progress = ProgressMax

\* C7: when a run whose creation response was 429 ends, the error shown is
\* the rate-limit message.
C7_RateLimitMessageShown ==
  [][\A r \in RunIds :
       (Completes(r) /\ runs'[r].createCode = HttpTooMany)
       => error' = RateLimitMsg]_vars

\* C8: a run whose creation response was 429 never starts a progress timer
\* and never issues a status request, and the in-flight flag is false after
\* the step that receives the 429 and after the step in which the run ends.
C8_RateLimitedNoPolling ==
  /\ [](\A r \in RunIds :
          runs[r].createCode = HttpTooMany
          => (/\ runs[r].timer = "none"
              /\ runs[r].pv = 0
              /\ runs[r].polls = 0
              /\ runs[r].pc \in {"awaitCreateJson", "done"}))
  /\ [][\A r \in RunIds :
          (/\ runs'[r].createCode = HttpTooMany
           /\ runs'[r] # runs[r])
          => ~predictionOn']_vars

\* a run rejected with 429 has ended, with the flag false
C8_Witness ==
  \E r \in RunIds :
    /\ runs[r].createCode = HttpTooMany
    /\ runs[r].pc = "done"
    /\ runs[r].polls = 0
    /\ ~predictionOn

\* C9: a run whose creation response has a code that is neither 201 nor
\* 429 and a body carrying `detail` ends with the error equal to that
\* detail, the in-flight flag false, and without polling.
C9_RejectionShowsDetail ==
  [][\A r \in RunIds :
       (/\ Completes(r)
        /\ runs'[r].createCode \notin {0, HttpCreated, HttpTooMany}
        /\ runs'[r].resp.body.kind = "json")
       => (/\ error' = runs'[r].resp.body.detail
           /\ ~predictionOn'
           /\ runs'[r].polls = 0
           /\ runs'[r].timer = "none")]_vars

\* C10: a run whose creation fetch rejects ends with a message in the
\* error, the in-flight flag false, and without polling.
C10_TransportErrorShown ==
  [][\A r \in RunIds :
       (/\ Completes(r)
        /\ runs[r].pc = "awaitCreate"
        /\ runs'[r].createCode = 0)
       => (/\ error' \notin {NULL, Undefined}
           /\ ~predictionOn'
           /\ runs'[r].polls = 0
           /\ runs'[r].timer = "none")]_vars

\* a step of the page that touches no run, no text and no download: a click
\* that handleButtonClick answers without a request
ValidationClick ==
  /\ runs' = runs
  /\ message' = message
  /\ download' = download

\* C11: while the text is longer than 2000 characters no run issues a
\* creation request, and a click sets the over-limit message and leaves the
\* stored Job, Progress and the in-flight flag as they are (no run changes,
\* so no status request is issued either).
C11_TooLongRejected ==
  [][Len(message) > MaxMessageLen =>
       /\ \A r \in RunIds : runs'[r].creates = runs[r].creates
       /\ ValidationClick =>
            /\ error' = TooLongMsg
            /\ UNCHANGED <<prediction, progress, predictionOn>>]_vars

\* the over-limit message is shown over a finished Job that is still stored
C11_Witness ==
  /\ Len(message) > MaxMessageLen
  /\ error = TooLongMsg
  /\ prediction.status = "succeeded"
  /\ progress = ProgressMax
  /\ ~predictionOn
  /\ \E r \in RunIds : runs[r].pc = "idle"

\* C12: while the text is empty no run issues a creation request, and a
\* click sets the no-text message, which differs from the over-limit
\* message, and leaves the stored Job, Progress and the in-flight flag as
\* they are.
C12_EmptyRejected ==
  [][message = "" =>
       /\ \A r \in RunIds : runs'[r].creates = runs[r].creates
       /\ ValidationClick =>
            /\ error' = NoTextMsg
            /\ error' # TooLongMsg
            /\ UNCHANGED <<prediction, progress, predictionOn>>]_vars

\* the no-text message is shown over a finished Job that is still stored
C12_Witness ==
  /\ message = ""
  /\ error = NoTextMsg
  /\ prediction.status = "succeeded"
  /\ progress = ProgressMax
  /\ ~predictionOn
  /\ \E r \in RunIds : runs[r].pc = "idle"

\* C13: a run whose 201 creation response carries a non-terminal status
\* enters the polling loop with the in-flight flag true, the error absent,
\* the returned Job stored, Progress 0 and its progress timer started.
C13_CreatedEntersPolling ==
  [][\A r \in RunIds :
       (runs[r].pc = "awaitCreateJson" /\ runs'[r].pc = "sleep")
       => (/\ runs[r].resp.code = HttpCreated
           /\ predictionOn'
           /\ error' = NULL
           /\ prediction' = runs[r].resp.body
           /\ progress' = 0
           /\ runs'[r].timer = "running"
           /\ runs'[r].pv = 1)]_vars

\* C14: a 200 status response reporting "succeeded" or "failed" ends the
\* run, and a run that has ended issues no request; after a 200 status
\* response with any other status the run goes back to its delay, from
\* which its only step is to issue the next status request.
C14_PollUntilTerminal ==
  /\ [][\A r \in RunIds :
          (/\ runs[r].pc = "awaitPollJson"
           /\ runs'[r].pc # "awaitPollJson"
           /\ runs[r].resp.code = HttpOk
           /\ runs[r].resp.body.kind = "json")
          => IF runs[r].resp.body.status \in {"succeeded", "failed"}
               THEN runs'[r].pc = "done" /\ runs'[r].polls = runs[r].polls
               ELSE runs'[r].pc = "sleep"]_vars
  /\ [][\A r \in RunIds :
          /\ runs[r].pc = "done"
             => (/\ runs'[r].pc = "done"
                 /\ runs'[r].polls = runs[r].polls
                 /\ runs'[r].creates = runs[r].creates)
          /\ (runs[r].pc = "sleep" /\ runs'[r].pc # "sleep")
             => (runs'[r].pc = "awaitPoll" /\ runs'[r].polls = runs[r].polls + 1)
          /\ runs'[r].polls # runs[r].polls => runs[r].pc = "sleep"]_vars

\* a run polled again after a non-terminal 200 response and stopped at the
\* "failed" one
C14_Witness ==
  \E r \in RunIds :
    /\ runs[r].pc = "done"
    /\ runs[r].exit = "terminal"
    /\ runs[r].polls = 2
    /\ runs[r].resp.code = HttpOk
    /\ runs[r].resp.body.status = "failed"

\* C15: a status response with a code other than 200 and a JSON object as
\* body ends the run with the error set to that body's detail, without
\* another status request and with the stored Job left as it was.
C15_PollRejected ==
  [][\A r \in RunIds :
       (/\ runs[r].pc = "awaitPollJson"
        /\ runs'[r].pc # "awaitPollJson"
        /\ runs[r].resp.code # HttpOk
        /\ runs[r].resp.body.kind = "json")
       => (/\ error' = runs[r].resp.body.detail
           /\ runs'[r].pc = "done"
           /\ runs'[r].polls = runs[r].polls
           /\ prediction' = prediction)]_vars

\* a run ended on a 500 status response: its detail is shown and the Job
\* stored before is still there
C15_Witness ==
  \E r \in RunIds :
    /\ runs[r].pc = "done"
    /\ runs[r].exit = "pollError"
    /\ runs[r].resp.code = 500
    /\ runs[r].resp.body.detail = "service detail"
    /\ error = "service detail"
    /\ prediction.status = "processing"
    /\ prediction # runs[r].resp.body

\* C16: a submit is accepted only with a non-empty text of at most 2000
\* characters (2000 included), and every such submit that is accepted
\* issues exactly one creation request, whose prompt is the fixed template
\* around the raw text, before any status request; the run never issues a
\* second creation request.
C16_OneCreationRequest ==
  /\ [][\A r \in RunIds :
          (runs[r].pc = "idle" /\ runs'[r].pc # "idle")
          => (/\ message # ""
              /\ Len(message) <= MaxMessageLen
              /\ runs'[r].pc = "awaitCreate"
              /\ runs'[r].req = "in the style of TOK," \o message \o " as a tattoo"
              /\ runs'[r].creates = 1
              /\ runs'[r].polls = 0)]_vars
  /\ [][\A r \in RunIds :
          /\ runs[r].pc # "idle" => runs'[r].creates = runs[r].creates
          /\ runs'[r].polls > 0 => runs'[r].creates = 1]_vars
  /\ [][(message # "" /\ Len(message) <= MaxMessageLen) => ~ValidationClick]_vars

\* a text of exactly 2000 characters was submitted and its creation request
\* is in flight
C16_Witness ==
  \E r \in RunIds :
    /\ runs[r].pc = "awaitCreate"
    /\ runs[r].creates = 1
    /\ Len(message) = MaxMessageLen
    /\ runs[r].req = "in the style of TOK," \o message \o " as a tattoo"

\* the reference is site-relative / absolute, read off its first characters
SiteRelative(src) == StartsWith(src, "/")
Absolute(src) == StartsWith(src, "http://") \/ StartsWith(src, "https://")

\* C17: for every reference of the bounded set, a download fetches the
\* origin followed by the reference when it is site-relative and the
\* reference itself when it is absolute.
C17_DownloadUrl ==
  download.pc # "idle"
  => (/\ download.src \in DownloadRefs
      /\ SiteRelative(download.src) \/ Absolute(download.src)
      /\ SiteRelative(download.src) => download.url = Origin \o download.src
      /\ Absolute(download.src) => download.url = download.src)

\* the site-relative sample image has been fetched from the origin and saved
C17_Witness ==
  /\ download.pc = "saved"
  /\ download.src = "/images/dog.webp"
  /\ download.url = "https://tattoo.example/images/dog.webp"

\* C18: at most one progress timer is running at any time.
C18_OneTimer ==
  Cardinality({r \in RunIds : runs[r].timer = "running"}) <= 1

\* C19: the store is written with a 200 status response before the loop
\* condition is evaluated and before the next delay: the step that takes the
\* run from the parsed 200 response to its delay or to its exit on a terminal
\* status leaves that response in the store, and while a run waits in its
\* delay after a status response the stored Job is that response.
C19_StoreIsLatestPoll ==
  /\ \A r \in RunIds :
       (runs[r].pc = "sleep" /\ runs[r].polls > 0)
       => (runs[r].resp.code = HttpOk /\ prediction = runs[r].resp.body)
  /\ \A r \in RunIds :
       (runs[r].pc = "done" /\ runs[r].exit = "terminal" /\ runs[r].polls > 0
        /\ \A q \in RunIds \ {r} : runs[q].pc = "idle")
       => (runs[r].resp.code = HttpOk /\ prediction = runs[r].resp.body)

\* C20: a run that writes a terminal status to the store ends in that very
\* step, so it writes nothing afterwards: a run continues after a write only
\* when the status written is neither "succeeded" nor "failed", a run that
\* has ended never takes another step of the handler, and the store changes
\* only in a step of a run that has not ended.
C20_TerminalIsFinal ==
  /\ [][\A r \in RunIds :
          (/\ runs[r].pc \in {"awaitCreateJson", "awaitPollJson"}
           /\ runs'[r].pc # runs[r].pc
           /\ prediction' = runs[r].resp.body
           /\ runs[r].resp.body.kind = "json"
           /\ runs[r].resp.body.status \in {"succeeded", "failed"})
          => runs'[r].pc = "done"]_vars
  /\ [][\A r \in RunIds :
          runs[r].pc = "done"
          => (/\ runs'[r].pc = "done"
              /\ runs'[r].exit = runs[r].exit
              /\ runs'[r].resp = runs[r].resp)]_vars
  /\ [][prediction' # prediction
          => \E r \in RunIds :
               /\ runs[r].pc \in {"awaitCreateJson", "awaitPollJson"}
               /\ runs'[r].pc # runs[r].pc]_vars

\* a run wrote "processing" after its first status request and "failed"
\* after its second, and ended there
C20_Witness ==
  \E r \in RunIds :
    /\ runs[r].pc = "done"
    /\ runs[r].exit = "terminal"
    /\ runs[r].polls = 2
    /\ prediction = runs[r].resp.body
    /\ prediction.status = "failed"
    /\ predictionOn

\* C21: while a run is in its polling loop the id of the stored Job equals
\* the id of that run's creation response, the id its status requests
\* target, whatever id the status responses carry.
C21_StoredIdIsCreationId ==
  \A r \in RunIds :
    runs[r].pc \in {"sleep", "awaitPoll", "awaitPollJson"}
    => prediction.id = runs[r].jobId

\* the run is in its polling loop
Polling(r) == runs[r].pc \in {"sleep", "awaitPoll", "awaitPollJson"}

C23_PollingStops ==
  /\ \A r \in 1..MaxRunsLive : Polling(r) ~> (runs[r].pc = "done")
  /\ [][\A r \in 1..MaxRunsLive :
          runs[r].pc = "done"
          => (runs'[r].pc = "done" /\ runs'[r].polls = runs[r].polls)]_vars

\* a run stopped on the "failed" answer to its last status request, after a
\* 200 answer that was not terminal
C23_Witness ==
  \E r \in 1..MaxRunsLive :
    /\ runs[r].pc = "done"
    /\ runs[r].exit = "terminal"
    /\ runs[r].polls = MaxPollsLive
    /\ runs[r].resp.code = HttpOk
    /\ runs[r].resp.body.status = "failed"

\* C24: a run whose 201 creation response already carries a terminal status
\* issues no status request and ends cleaned up: the in-flight flag false,
\* its progress timer not running, and Progress 100 when the status is
\* "succeeded".
C24_CreatedTerminalCleansUp ==
  [][\A r \in RunIds :
       (/\ runs[r].pc = "awaitCreateJson"
        /\ runs'[r].pc = "done"
        /\ runs[r].resp.code = HttpCreated
        /\ runs[r].resp.body.kind = "json"
        /\ runs[r].resp.body.status \in {"succeeded", "failed"})
       => (/\ runs'[r].polls = 0
           /\ ~predictionOn'
           /\ runs'[r].timer # "running"
           /\ runs[r].resp.body.status = "succeeded" => progress' = ProgressMax)]_vars

\* the interval callback of run r fires in this step
TimerFires(r) ==
  /\ runs[r].timer = "running"
  /\ runs'[r].pc = runs[r].pc
  /\ runs'[r].pv # runs[r].pv \/ runs'[r].timer # runs[r].timer

\* C25: a progress timer tick, a prompt text change and a download step
\* change neither the stored Job, nor the error, nor the in-flight flag; a
\* download step leaves Progress and the runs unchanged too; and the Job and
\* the error change only in a step of handleButtonClick.
C25_FrameOfTickInputDownload ==
  /\ [][((\E r \in RunIds : TimerFires(r))
         \/ message' # message
         \/ download' # download)
        => UNCHANGED <<prediction, error, predictionOn>>]_vars
  /\ [][download' # download => UNCHANGED <<progress, runs, message>>]_vars
  /\ [][(prediction' # prediction \/ error' # error)
        => \/ ValidationClick
           \/ \E r \in RunIds : runs'[r].pc # runs[r].pc]_vars

\* a run ended on a non-200 status response: its error is shown and its Job
\* stored, and they are still there after its timer has fired, the text is
\* "tiger" and a download was saved
C25_Witness ==
  /\ download.pc = "saved"
  /\ message = "tiger"
  /\ error = "service detail"
  /\ prediction.status = "processing"
  /\ predictionOn
  /\ \E r \in RunIds : runs[r].exit = "pollError" /\ runs[r].pv > 1

\* C26: a running timer has fired at most 100 times (its counter, which
\* starts at 1 and grows by one per firing, is at most 101); every firing
\* either advances the counter or clears the interval, and the firing at 101
\* clears it; so the timer releases itself by its 101st firing, and under
\* tick fairness every running timer eventually stops running.
C26_TimerReleasesItself ==
  /\ [](\A r \in 1..MaxRunsLive :
          runs[r].timer = "running"
          => (runs[r].pv >= 1 /\ runs[r].pv <= ProgressMax + 1))
  /\ [][\A r \in 1..MaxRunsLive :
          TimerFires(r)
          => (/\ runs'[r].pv > runs[r].pv \/ runs'[r].timer = "cleared"
              /\ runs[r].pv = ProgressMax + 1 => runs'[r].timer = "cleared"
              /\ runs'[r].timer = "cleared" => runs'[r].pv = ProgressMax + 1)]_vars
  /\ \A r \in 1..MaxRunsLive :
       (runs[r].timer = "running") ~> (runs[r].timer = "cleared")

\* the timer of a run that ended on a non-200 status response, which the
\* handler never cancels, has released itself after driving Progress to 100
C26_Witness ==
  \E r \in 1..MaxRunsLive :
    /\ runs[r].exit = "pollError"
    /\ runs[r].timer = "cleared"
    /\ runs[r].pv = ProgressMax + 1
    /\ progress = ProgressMax

====
